---- MODULE Spec2Model ----
(***************************************************************************)
(* A model of the inline-forms package: the Custom, Menu and Modal forms,  *)
(* their elements, and the decoding of a client's response into callbacks. *)
(*                                                                         *)
(* A form is a record.  Every handler (Element, Button, MarshalJSON,       *)
(* SubmitJSON) is one action.  What a handler did is recorded in `last`:   *)
(* the value it returned and the sequence of calls it made, in order.      *)
(*                                                                         *)
(* Title, Content, Text, Default, Placeholder, StepSize, Image and the     *)
(* bytes MarshalJSON returns are read by no SubmitJSON and are left out.   *)
(***************************************************************************)
EXTENDS Integers, Sequences, FiniteSets

VARIABLES forms, last, marshalled, intSize

vars == <<forms, last, marshalled, intSize>>

\* The longest element (or button) list of a form, and the longest response array.
MaxElems == 2

\* A nil func value (a Submit field that is not set).
Nil == "nil"

\* The outcomes of a call: a nil error, a non-nil error, a runtime panic.
ErrNil == "nil"
ErrError == "error"
ErrPanic == "panic"

\* The width of Go's int and uint, which the build target decides.
IntSizes == {32, 64}

(***************************************************************************)
(* Numbers.  A number literal or float64 is h/2 + big * 2^32 for big = 0   *)
(* or 1, and h/2 + 2^64 for big = 2, with h small: halves give the         *)
(* fractions, big the values beyond a 32-bit int and beyond a 64-bit int.  *)
(* An integer is v + big * 2^32 in the same way.                           *)
(***************************************************************************)
Num(h, big) == [h |-> h, big |-> big]

Float(x) == Num(2 * x, 0)

\* a < b on float64 values (h is far smaller than 2^32).
NumLess(a, b) == a.big < b.big \/ (a.big = b.big /\ a.h < b.h)

IntV(v, big) == [v |-> v, big |-> big]

\* a < b on integers.
IntLess(a, b) == a.big < b.big \/ (a.big = b.big /\ a.v < b.v)

(***************************************************************************)
(* JSON texts, as the value they spell.                                    *)
(***************************************************************************)
NilData == [k |-> "nil"]
JSONBad == [k |-> "bad"]
JSONNull == [k |-> "null"]
JSONBool(b) == [k |-> "bool", b |-> b]
JSONString(s) == [k |-> "string", s |-> s]
JSONNumber(h, big) == [k |-> "number", lit |-> Num(h, big)]
JSONArray(items) == [k |-> "array", items |-> items]

\* A string literal holding a byte sequence that is not UTF-8, and what the decoder
\* makes of it: encoding/json replaces invalid UTF-8 by U+FFFD.
InvalidUTF8 == "\\xff"
Replacement == "\\ufffd"

ValidString(s) == s # InvalidUTF8

\* An element of a decoded []any: string, bool, json.Number (UseNumber keeps the
\* literal), or nil for null.
DecodeValue(j) ==
  CASE j.k = "string" -> [t |-> "string", s |-> IF ValidString(j.s) THEN j.s ELSE Replacement]
    [] j.k = "bool" -> [t |-> "bool", b |-> j.b]
    [] j.k = "number" -> [t |-> "json.Number", lit |-> j.lit]
    [] OTHER -> [t |-> "nil"]

\* dec.Decode(&inputData) with inputData []any: an array decodes to its values, null
\* to a nil slice, anything else is an error.
DecodeSlice(data) ==
  CASE data.k = "array" ->
         [err |-> ErrNil, v |-> [i \in 1..Len(data.items) |-> DecodeValue(data.items[i])]]
    [] data.k = "null" -> [err |-> ErrNil, v |-> <<>>]
    [] OTHER -> [err |-> ErrError, v |-> <<>>]

\* json.Unmarshal(data, &index) with index uint (initially 0): an integer literal
\* that is not negative and fits a uint is stored, null leaves index alone.
UnmarshalUint(data, size) ==
  CASE data.k = "number" ->
         IF data.lit.h % 2 = 0 /\ data.lit.h >= 0
            /\ data.lit.big <= (IF size = 64 THEN 1 ELSE 0)
         THEN [err |-> ErrNil, v |-> IntV(data.lit.h \div 2, data.lit.big)]
         ELSE [err |-> ErrError, v |-> IntV(0, 0)]
    [] data.k = "null" -> [err |-> ErrNil, v |-> IntV(0, 0)]
    [] OTHER -> [err |-> ErrError, v |-> IntV(0, 0)]

\* json.Unmarshal(data, &value) with value bool (initially false).
UnmarshalBool(data) ==
  CASE data.k = "bool" -> [err |-> ErrNil, v |-> data.b]
    [] data.k = "null" -> [err |-> ErrNil, v |-> FALSE]
    [] OTHER -> [err |-> ErrError, v |-> FALSE]

\* value.(json.Number) followed by number.Int64(): the zero json.Number of a failed
\* assertion does not parse, nor does a fraction or a literal beyond int64.
NumberInt64(value) ==
  IF value.t = "json.Number" /\ value.lit.h % 2 = 0 /\ value.lit.big <= 1
  THEN [ok |-> TRUE, v |-> IntV(value.lit.h \div 2, value.lit.big)]
  ELSE [ok |-> FALSE, v |-> IntV(0, 0)]

\* value.(json.Number) followed by number.Float64(); the result is kept in halves.
NumberFloat64(value) ==
  IF value.t = "json.Number"
  THEN [ok |-> TRUE, v |-> value.lit]
  ELSE [ok |-> FALSE, v |-> Num(0, 0)]

\* int(val) for an int64 val: a 32-bit int keeps the low 32 bits.
ToInt(val, size) == IF size = 64 THEN val ELSE IntV(val.v, 0)

\* len(s), as an integer.
LenOf(s) == IntV(Len(s), 0)

\* The index expression s[val] does not panic.
InBounds(s, val) == val.big = 0 /\ val.v >= 0 /\ val.v < Len(s)

(***************************************************************************)
(* Calls, as they are recorded: element.submit(value) with what it         *)
(* returned, an element's Submit callback with its arguments, a button's   *)
(* Submit callback, the form's Submit callback.                            *)
(***************************************************************************)
SubmitCall(i, value, ret) == [fn |-> "submit", i |-> i, value |-> value, ret |-> ret]
ElementSubmit(i, kind, args) == [fn |-> "Element.Submit", i |-> i, kind |-> kind, args |-> args]
ButtonSubmit(cb) == [fn |-> "Button.Submit", cb |-> cb]
FormSubmit(closed) == [fn |-> "Form.Submit", closed |-> closed]

\* What a call returned and the calls it made.
Outcome(err, calls) == [err |-> err, calls |-> calls]

(***************************************************************************)
(* Elements.  submit of the element at index i of a form.                  *)
(***************************************************************************)
Label_submit(l, value, i) == Outcome(ErrNil, <<SubmitCall(i, value, ErrNil)>>)

Input_submit(e, value, i) ==
  IF e.Submit = Nil THEN Outcome(ErrNil, <<SubmitCall(i, value, ErrNil)>>)
  ELSE IF value.t # "string" THEN Outcome(ErrError, <<SubmitCall(i, value, ErrError)>>)
  ELSE IF ~ValidString(value.s) THEN Outcome(ErrError, <<SubmitCall(i, value, ErrError)>>)
  ELSE Outcome(ErrNil, <<SubmitCall(i, value, ErrNil),
                         ElementSubmit(i, "Input", [text |-> value.s])>>)

Toggle_submit(t, value, i) ==
  IF t.Submit = Nil THEN Outcome(ErrNil, <<SubmitCall(i, value, ErrNil)>>)
  ELSE IF value.t # "bool" THEN Outcome(ErrError, <<SubmitCall(i, value, ErrError)>>)
  ELSE Outcome(ErrNil, <<SubmitCall(i, value, ErrNil),
                         ElementSubmit(i, "Toggle", [enabled |-> value.b])>>)

Slider_submit(s, value, i) ==
  IF s.Submit = Nil THEN Outcome(ErrNil, <<SubmitCall(i, value, ErrNil)>>)
  ELSE LET number == NumberFloat64(value) IN
    IF ~number.ok THEN Outcome(ErrError, <<SubmitCall(i, value, ErrError)>>)
    ELSE IF NumLess(number.v, s.Min) \/ NumLess(s.Max, number.v)
    THEN Outcome(ErrError, <<SubmitCall(i, value, ErrError)>>)
    ELSE Outcome(ErrNil, <<SubmitCall(i, value, ErrNil),
                           ElementSubmit(i, "Slider", [value |-> number.v])>>)

Dropdown_submit(d, value, i, size) ==
  IF d.Submit = Nil THEN Outcome(ErrNil, <<SubmitCall(i, value, ErrNil)>>)
  ELSE LET number == NumberInt64(value) IN
    IF ~number.ok THEN Outcome(ErrError, <<SubmitCall(i, value, ErrError)>>)
    ELSE IF IntLess(number.v, IntV(0, 0)) \/ ~IntLess(ToInt(number.v, size), LenOf(d.Options))
    THEN Outcome(ErrError, <<SubmitCall(i, value, ErrError)>>)
    ELSE IF ~InBounds(d.Options, number.v)
    THEN Outcome(ErrPanic, <<SubmitCall(i, value, ErrPanic)>>)
    ELSE Outcome(ErrNil, <<SubmitCall(i, value, ErrNil),
                           ElementSubmit(i, "Dropdown",
                             [index |-> ToInt(number.v, size),
                              option |-> d.Options[number.v.v + 1]])>>)

StepSlider_submit(s, value, i, size) ==
  IF s.Submit = Nil THEN Outcome(ErrNil, <<SubmitCall(i, value, ErrNil)>>)
  ELSE LET number == NumberInt64(value) IN
    IF ~number.ok THEN Outcome(ErrError, <<SubmitCall(i, value, ErrError)>>)
    ELSE IF IntLess(number.v, IntV(0, 0)) \/ ~IntLess(ToInt(number.v, size), LenOf(s.Options))
    THEN Outcome(ErrError, <<SubmitCall(i, value, ErrError)>>)
    ELSE IF ~InBounds(s.Options, number.v)
    THEN Outcome(ErrPanic, <<SubmitCall(i, value, ErrPanic)>>)
    ELSE Outcome(ErrNil, <<SubmitCall(i, value, ErrNil),
                           ElementSubmit(i, "StepSlider",
                             [index |-> ToInt(number.v, size),
                              option |-> s.Options[number.v.v + 1]])>>)

\* element.submit(value): the dispatch on the element's dynamic type.
submit(element, value, i, size) ==
  CASE element.kind = "Label" -> Label_submit(element, value, i)
    [] element.kind = "Input" -> Input_submit(element, value, i)
    [] element.kind = "Toggle" -> Toggle_submit(element, value, i)
    [] element.kind = "Slider" -> Slider_submit(element, value, i)
    [] element.kind = "Dropdown" -> Dropdown_submit(element, value, i, size)
    [] element.kind = "StepSlider" -> StepSlider_submit(element, value, i, size)

(***************************************************************************)
(* Forms.  X_SubmitJSON is what SubmitJSON of form type X returns and the  *)
(* calls it makes.  ButtonMenu is the Menu whose Buttons field is public.  *)
(***************************************************************************)

\* if form.Submit != nil { form.Submit(closed) }
CallFormSubmit(form, closed) == IF form.Submit # Nil THEN <<FormSubmit(closed)>> ELSE <<>>

\* if button.Submit != nil { button.Submit(tx) }
CallButtonSubmit(button) == IF button.Submit # Nil THEN <<ButtonSubmit(button.Submit)>> ELSE <<>>

\* The loop of Custom.SubmitJSON from index i on: it returns at the first element
\* whose submit fails, and a panic of a submit ends it as well.
RECURSIVE SubmitElements(_, _, _, _)
SubmitElements(elements, inputData, i, size) ==
  IF i > Len(elements) THEN Outcome(ErrNil, <<>>)
  ELSE LET r == submit(elements[i], inputData[i], i, size) IN
    IF r.err # ErrNil THEN r
    ELSE LET rest == SubmitElements(elements, inputData, i + 1, size) IN
      Outcome(rest.err, r.calls \o rest.calls)

\* Custom.SubmitJSON that goes on to the form's Submit after an element failed.
Custom_SubmitJSON_NoReturn(form, data, size) ==
  IF data.k = "nil" THEN Outcome(ErrNil, CallFormSubmit(form, TRUE))
  ELSE LET dec == DecodeSlice(data) IN
    IF dec.err # ErrNil THEN Outcome(ErrError, <<>>)
    ELSE IF Len(form.Elements) # Len(dec.v) THEN Outcome(ErrError, <<>>)
    ELSE LET r == SubmitElements(form.Elements, dec.v, 1, size) IN
      Outcome(r.err, r.calls \o CallFormSubmit(form, FALSE))

Custom_SubmitJSON(form, data, size) ==
  IF data.k = "nil" THEN Outcome(ErrNil, CallFormSubmit(form, TRUE))
  ELSE LET dec == DecodeSlice(data) IN
    IF dec.err # ErrNil THEN Outcome(ErrError, <<>>)
    ELSE IF Len(form.Elements) # Len(dec.v) THEN Outcome(ErrError, <<>>)
    ELSE LET r == SubmitElements(form.Elements, dec.v, 1, size) IN
      IF r.err # ErrNil THEN r
      ELSE Outcome(ErrNil, r.calls \o CallFormSubmit(form, FALSE))

\* if len(form.Elements) == 0 { return nil, errors.New(...) }
Custom_MarshalJSON(form) == Outcome(IF Len(form.Elements) = 0 THEN ErrError ELSE ErrNil, <<>>)

\* Menu.SubmitJSON that calls the form's Submit before the button's.
Menu_SubmitJSON_FormFirst(form, data, size) ==
  IF data.k = "nil" THEN Outcome(ErrNil, CallFormSubmit(form, TRUE))
  ELSE LET index == UnmarshalUint(data, size) IN
    IF index.err # ErrNil THEN Outcome(ErrError, <<>>)
    ELSE IF ~IntLess(index.v, LenOf(form.buttons)) THEN Outcome(ErrError, <<>>)
    ELSE IF ~InBounds(form.buttons, index.v) THEN Outcome(ErrPanic, <<>>)
    ELSE LET button == form.buttons[index.v.v + 1] IN
      Outcome(ErrNil, CallFormSubmit(form, FALSE) \o CallButtonSubmit(button))

\* Menu.SubmitJSON whose bounds check is index > len(form.buttons).
Menu_SubmitJSON_OffByOne(form, data, size) ==
  IF data.k = "nil" THEN Outcome(ErrNil, CallFormSubmit(form, TRUE))
  ELSE LET index == UnmarshalUint(data, size) IN
    IF index.err # ErrNil THEN Outcome(ErrError, <<>>)
    ELSE IF IntLess(LenOf(form.buttons), index.v) THEN Outcome(ErrError, <<>>)
    ELSE IF ~InBounds(form.buttons, index.v) THEN Outcome(ErrPanic, <<>>)
    ELSE LET button == form.buttons[index.v.v + 1] IN
      Outcome(ErrNil, CallButtonSubmit(button) \o CallFormSubmit(form, FALSE))

Menu_SubmitJSON(form, data, size) ==
  IF data.k = "nil" THEN Outcome(ErrNil, CallFormSubmit(form, TRUE))
  ELSE LET index == UnmarshalUint(data, size) IN
    IF index.err # ErrNil THEN Outcome(ErrError, <<>>)
    ELSE IF ~IntLess(index.v, LenOf(form.buttons)) THEN Outcome(ErrError, <<>>)
    ELSE IF ~InBounds(form.buttons, index.v) THEN Outcome(ErrPanic, <<>>)
    ELSE LET button == form.buttons[index.v.v + 1] IN
      Outcome(ErrNil, CallButtonSubmit(button) \o CallFormSubmit(form, FALSE))

\* Menu.MarshalJSON without form.buttons = nil.
Menu_MarshalButtons_NoReset(form) ==
  form.buttons \o SelectSeq(form.Elements, LAMBDA element : element.kind = "Button")

\* form.buttons after Menu.MarshalJSON: reset, then every Button of Elements in order.
Menu_MarshalButtons(form) == SelectSeq(form.Elements, LAMBDA element : element.kind = "Button")

ButtonMenu_SubmitJSON(form, data, size) ==
  IF data.k = "nil" THEN Outcome(ErrNil, CallFormSubmit(form, TRUE))
  ELSE LET index == UnmarshalUint(data, size) IN
    IF index.err # ErrNil THEN Outcome(ErrError, <<>>)
    ELSE IF ~IntLess(index.v, LenOf(form.Buttons)) THEN Outcome(ErrError, <<>>)
    ELSE IF ~InBounds(form.Buttons, index.v) THEN Outcome(ErrPanic, <<>>)
    ELSE LET button == form.Buttons[index.v.v + 1] IN
      Outcome(ErrNil, CallButtonSubmit(button) \o CallFormSubmit(form, FALSE))

\* Modal.SubmitJSON that reports a closed form as a submitted one.
Modal_SubmitJSON_NotClosed(form, data) ==
  IF data.k = "nil" THEN Outcome(ErrNil, CallFormSubmit(form, FALSE))
  ELSE LET value == UnmarshalBool(data) IN
    IF value.err # ErrNil THEN Outcome(ErrError, <<>>)
    ELSE LET button == IF value.v THEN form.Button1 ELSE form.Button2 IN
      Outcome(ErrNil, CallButtonSubmit(button) \o CallFormSubmit(form, FALSE))

Modal_SubmitJSON(form, data) ==
  IF data.k = "nil" THEN Outcome(ErrNil, CallFormSubmit(form, TRUE))
  ELSE LET value == UnmarshalBool(data) IN
    IF value.err # ErrNil THEN Outcome(ErrError, <<>>)
    ELSE LET button == IF value.v THEN form.Button1 ELSE form.Button2 IN
      Outcome(ErrNil, CallButtonSubmit(button) \o CallFormSubmit(form, FALSE))

(***************************************************************************)
(* The values the model draws from.                                        *)
(***************************************************************************)
SeqsUpTo(S, n) == UNION {[1..m -> S] : m \in 0..n}

Label == [kind |-> "Label"]
Input(f) == [kind |-> "Input", Submit |-> f]
Toggle(f) == [kind |-> "Toggle", Submit |-> f]
Slider(min, max, f) == [kind |-> "Slider", Min |-> Float(min), Max |-> Float(max), Submit |-> f]
Dropdown(options, f) == [kind |-> "Dropdown", Options |-> options, Submit |-> f]
StepSlider(options, f) == [kind |-> "StepSlider", Options |-> options, Submit |-> f]
Button(f) == [kind |-> "Button", Submit |-> f]

\* The elements of a Custom form under test.
CustomElements ==
  {Label, Input("f"), Toggle(Nil), Slider(0, 1, "f"),
   Dropdown(<<"a", "b">>, "f"), StepSlider(<<"a">>, "f")}

\* Response values: a string, the number 0 and the number 2^32.
Values == {JSONString("s"), JSONNumber(0, 0), JSONNumber(0, 1)}

CustomResponses ==
  {NilData, JSONBad, JSONNull, JSONBool(TRUE)}
    \cup {JSONArray(items) : items \in SeqsUpTo(Values, MaxElems)}

\* Every kind of element, with and without a Submit callback.
AllElements ==
  {Label}
    \cup {Input(f) : f \in {Nil, "f"}}
    \cup {Toggle(f) : f \in {Nil, "f"}}
    \cup {Slider(0, 1, f) : f \in {Nil, "f"}}
    \cup {Dropdown(o, f) : o \in {<<>>, <<"a">>, <<"a", "b">>}, f \in {Nil, "f"}}
    \cup {StepSlider(o, f) : o \in {<<>>, <<"a">>, <<"a", "b">>}, f \in {Nil, "f"}}

\* Response values of every type: strings (one of them not UTF-8), bools, null, and
\* the numbers -1, 0, 0.5, 1, 2, 2^32, 2^32 + 1 and 2^64.
AllValues ==
  {JSONString("s"), JSONString(InvalidUTF8), JSONBool(TRUE), JSONBool(FALSE), JSONNull,
   JSONNumber(-2, 0), JSONNumber(0, 0), JSONNumber(1, 0), JSONNumber(2, 0),
   JSONNumber(4, 0), JSONNumber(0, 1), JSONNumber(2, 1), JSONNumber(0, 2)}

ElementResponses == {JSONArray(<<v>>) : v \in AllValues}

MenuElements == {Label, Button(Nil), Button("b1"), Button("b2")}

\* The elements and responses of a pair of Menu forms.
PairElements == {Label, Button("b1")}

PairResponses == {NilData} \cup {JSONNumber(2 * n, 0) : n \in 0..MaxElems}

Buttons == {Button(Nil), Button("b1"), Button("b2")}

\* Button indices 0..MaxElems, and responses that are no index.
MenuResponses ==
  {NilData, JSONBad, JSONNull, JSONBool(TRUE), JSONNumber(-2, 0), JSONNumber(1, 0),
   JSONNumber(0, 1), JSONNumber(0, 2)}
    \cup {JSONNumber(2 * n, 0) : n \in 0..MaxElems}

ModalResponses == {NilData, JSONBad, JSONNull, JSONBool(TRUE), JSONBool(FALSE), JSONNumber(0, 0)}

Submits == {Nil, "f"}

(***************************************************************************)
(* State.  forms[i] is a form, last[i] the most recent operation on it     *)
(* with what it returned and called, marshalled[i] whether MarshalJSON was *)
(* called on it after its element list last changed.                       *)
(***************************************************************************)
NewCustom(elements, f) == [type |-> "Custom", Elements |-> elements, Submit |-> f]
NewMenu(elements, f) == [type |-> "Menu", Elements |-> elements, Submit |-> f, buttons |-> <<>>]
NewButtonMenu(buttons, f) == [type |-> "ButtonMenu", Buttons |-> buttons, Submit |-> f]
NewModal(b1, b2, f) == [type |-> "Modal", Button1 |-> b1, Button2 |-> b2, Submit |-> f]

Done(op, data, out) == [op |-> op, data |-> data, err |-> out.err, calls |-> out.calls]

NoOp == Done("new", NilData, Outcome(ErrNil, <<>>))

\* Struct literals: any element list, any buttons, Submit set or not.
NewForms ==
  {NewCustom(e, f) : e \in SeqsUpTo(CustomElements, MaxElems), f \in Submits}
    \cup {NewMenu(e, f) : e \in SeqsUpTo(MenuElements, MaxElems), f \in Submits}
    \cup {NewButtonMenu(b, f) : b \in SeqsUpTo(Buttons, MaxElems), f \in Submits}
    \cup {NewModal(b1, b2, f) : b1 \in Buttons, b2 \in Buttons, f \in Submits}

Init ==
  /\ forms \in [{1} -> NewForms]
  /\ last = [i \in {1} |-> NoOp]
  /\ marshalled = [i \in {1} |-> FALSE]
  /\ intSize \in IntSizes

\* Custom.Element
CustomElement(i, element) ==
  /\ forms[i].type = "Custom"
  /\ Len(forms[i].Elements) < MaxElems
  /\ forms' = [forms EXCEPT ![i].Elements = Append(@, element)]
  /\ last' = [last EXCEPT ![i] = Done("Element", NilData, Outcome(ErrNil, <<>>))]
  /\ marshalled' = [marshalled EXCEPT ![i] = FALSE]
  /\ UNCHANGED intSize

\* Custom.MarshalJSON
CustomMarshalJSON(i) ==
  /\ forms[i].type = "Custom"
  /\ last' = [last EXCEPT ![i] = Done("MarshalJSON", NilData, Custom_MarshalJSON(forms[i]))]
  /\ marshalled' = [marshalled EXCEPT ![i] = TRUE]
  /\ UNCHANGED <<forms, intSize>>

\* Custom.SubmitJSON
CustomSubmitJSON(i, data) ==
  /\ forms[i].type = "Custom"
  /\ last' = [last EXCEPT ![i] = Done("SubmitJSON", data, Custom_SubmitJSON(forms[i], data, intSize))]
  /\ UNCHANGED <<forms, marshalled, intSize>>

\* Menu.Element
MenuElement(i, element) ==
  /\ forms[i].type = "Menu"
  /\ Len(forms[i].Elements) < MaxElems
  /\ forms' = [forms EXCEPT ![i].Elements = Append(@, element)]
  /\ last' = [last EXCEPT ![i] = Done("Element", NilData, Outcome(ErrNil, <<>>))]
  /\ marshalled' = [marshalled EXCEPT ![i] = FALSE]
  /\ UNCHANGED intSize

\* Menu.MarshalJSON
MenuMarshalJSON(i) ==
  /\ forms[i].type = "Menu"
  /\ forms' = [forms EXCEPT ![i].buttons = Menu_MarshalButtons(forms[i])]
  /\ last' = [last EXCEPT ![i] = Done("MarshalJSON", NilData, Outcome(ErrNil, <<>>))]
  /\ marshalled' = [marshalled EXCEPT ![i] = TRUE]
  /\ UNCHANGED intSize

\* Menu.SubmitJSON
MenuSubmitJSON(i, data) ==
  /\ forms[i].type = "Menu"
  /\ last' = [last EXCEPT ![i] = Done("SubmitJSON", data, Menu_SubmitJSON(forms[i], data, intSize))]
  /\ UNCHANGED <<forms, marshalled, intSize>>

\* Menu.Button of the Menu with a public Buttons field
ButtonMenuButton(i, button) ==
  /\ forms[i].type = "ButtonMenu"
  /\ Len(forms[i].Buttons) < MaxElems
  /\ forms' = [forms EXCEPT ![i].Buttons = Append(@, button)]
  /\ last' = [last EXCEPT ![i] = Done("Button", NilData, Outcome(ErrNil, <<>>))]
  /\ marshalled' = [marshalled EXCEPT ![i] = FALSE]
  /\ UNCHANGED intSize

\* Menu.MarshalJSON of that Menu: a nil Buttons becomes an empty slice, of the same
\* length.
ButtonMenuMarshalJSON(i) ==
  /\ forms[i].type = "ButtonMenu"
  /\ last' = [last EXCEPT ![i] = Done("MarshalJSON", NilData, Outcome(ErrNil, <<>>))]
  /\ marshalled' = [marshalled EXCEPT ![i] = TRUE]
  /\ UNCHANGED <<forms, intSize>>

\* Menu.SubmitJSON of that Menu
ButtonMenuSubmitJSON(i, data) ==
  /\ forms[i].type = "ButtonMenu"
  /\ last' = [last EXCEPT ![i] =
                Done("SubmitJSON", data, ButtonMenu_SubmitJSON(forms[i], data, intSize))]
  /\ UNCHANGED <<forms, marshalled, intSize>>

\* Modal.MarshalJSON
ModalMarshalJSON(i) ==
  /\ forms[i].type = "Modal"
  /\ last' = [last EXCEPT ![i] = Done("MarshalJSON", NilData, Outcome(ErrNil, <<>>))]
  /\ marshalled' = [marshalled EXCEPT ![i] = TRUE]
  /\ UNCHANGED <<forms, intSize>>

\* Modal.SubmitJSON
ModalSubmitJSON(i, data) ==
  /\ forms[i].type = "Modal"
  /\ last' = [last EXCEPT ![i] = Done("SubmitJSON", data, Modal_SubmitJSON(forms[i], data))]
  /\ UNCHANGED <<forms, marshalled, intSize>>

Next ==
  \/ \E i \in DOMAIN forms, element \in CustomElements : CustomElement(i, element)
  \/ \E i \in DOMAIN forms : CustomMarshalJSON(i)
  \/ \E i \in DOMAIN forms, data \in CustomResponses : CustomSubmitJSON(i, data)
  \/ \E i \in DOMAIN forms, element \in MenuElements : MenuElement(i, element)
  \/ \E i \in DOMAIN forms : MenuMarshalJSON(i)
  \/ \E i \in DOMAIN forms, data \in MenuResponses : MenuSubmitJSON(i, data)
  \/ \E i \in DOMAIN forms, button \in Buttons : ButtonMenuButton(i, button)
  \/ \E i \in DOMAIN forms : ButtonMenuMarshalJSON(i)
  \/ \E i \in DOMAIN forms, data \in MenuResponses : ButtonMenuSubmitJSON(i, data)
  \/ \E i \in DOMAIN forms : ModalMarshalJSON(i)
  \/ \E i \in DOMAIN forms, data \in ModalResponses : ModalSubmitJSON(i, data)

Spec == Init /\ [][Next]_vars

(***************************************************************************)
(* One element: a Custom form of a single element of any kind, and         *)
(* responses of a single value of any type.                                *)
(***************************************************************************)
InitElement ==
  /\ forms \in [{1} -> {NewCustom(<<e>>, f) : e \in AllElements, f \in Submits}]
  /\ last = [i \in {1} |-> NoOp]
  /\ marshalled = [i \in {1} |-> FALSE]
  /\ intSize \in IntSizes

NextElement ==
  \/ \E data \in ElementResponses \cup {NilData} : CustomSubmitJSON(1, data)
  \/ CustomMarshalJSON(1)

SpecElement == InitElement /\ [][NextElement]_vars

(***************************************************************************)
(* Two Menu forms with the same Submit, each with its own history.         *)
(***************************************************************************)
InitPair ==
  /\ \E f \in Submits :
       forms \in [{1, 2} -> {NewMenu(e, f) : e \in SeqsUpTo(PairElements, MaxElems)}]
  /\ last = [i \in {1, 2} |-> NoOp]
  /\ marshalled = [i \in {1, 2} |-> FALSE]
  /\ intSize \in IntSizes

NextPair ==
  \/ \E i \in DOMAIN forms, element \in PairElements : MenuElement(i, element)
  \/ \E i \in DOMAIN forms : MenuMarshalJSON(i)
  \/ \E i \in DOMAIN forms, data \in PairResponses : MenuSubmitJSON(i, data)

SpecPair == InitPair /\ [][NextPair]_vars

(***************************************************************************)
(* Properties.                                                             *)
(***************************************************************************)

\* The Button elements of an element list, in order.
ButtonsOf(elements) == SelectSeq(elements, LAMBDA e : e.kind = "Button")

\* The response spells a button index: an integer literal that is not negative.
IsIndex(data) ==
  data.k = "number" /\ data.lit.big = 0 /\ data.lit.h >= 0 /\ data.lit.h % 2 = 0

IndexOf(data) == data.lit.h \div 2

Once(cond, call) == IF cond THEN <<call>> ELSE <<>>

\* The button's Submit once if it is set, then the form's Submit(false) once if it
\* is set, nothing else, and a nil error.
ButtonThenForm(button, form, op) ==
  /\ op.err = ErrNil
  /\ op.calls = Once(button.Submit # Nil, ButtonSubmit(button.Submit))
                  \o Once(form.Submit # Nil, FormSubmit(FALSE))

\* C1: Menu.SubmitJSON and Modal.SubmitJSON on a response that selects a button (an
\* index into the form's button list, a bool for a Modal) call the selected button's
\* Submit exactly once if it is set, then the form's Submit with closed = false
\* exactly once if it is set, call no other button's Submit, and return nil.  For the
\* Menu that collects its buttons in MarshalJSON the selected button is the Button
\* element of Elements with that index.
C1_ButtonThenFormSubmit ==
  \A i \in DOMAIN forms :
    LET form == forms[i]
        op == last[i]
    IN op.op = "SubmitJSON" =>
         /\ (form.type = "Menu" /\ IsIndex(op.data)
               /\ IndexOf(op.data) < Len(form.buttons)) =>
              /\ IndexOf(op.data) < Len(ButtonsOf(form.Elements))
              /\ ButtonThenForm(ButtonsOf(form.Elements)[IndexOf(op.data) + 1], form, op)
         /\ (form.type = "ButtonMenu" /\ IsIndex(op.data)
               /\ IndexOf(op.data) < Len(form.Buttons)) =>
              ButtonThenForm(form.Buttons[IndexOf(op.data) + 1], form, op)
         /\ (form.type = "Modal" /\ op.data.k = "bool") =>
              ButtonThenForm(IF op.data.b THEN form.Button1 ELSE form.Button2, form, op)

\* A Menu with two buttons whose second button was clicked: its Submit ran, then the
\* form's, and the first button's did not.
C1_Witness ==
  /\ forms[1].type = "Menu"
  /\ forms[1].Elements = <<Button("b1"), Button("b2")>>
  /\ last[1].op = "SubmitJSON"
  /\ last[1].data.k = "number"
  /\ last[1].calls = <<ButtonSubmit("b2"), FormSubmit(FALSE)>>

\* The values of a response array (null decodes to no values).
ItemsOf(data) == IF data.k = "array" THEN data.items ELSE <<>>

\* C2: whenever Custom.SubmitJSON calls the form's Submit with closed = false, submit
\* has been run before it on every element of Elements exactly once, in index
\* order, each with the response value at its own index, and each returned nil.
C2_EverySubmitBeforeFormSubmit ==
  \A i \in DOMAIN forms :
    LET form == forms[i]
        op == last[i]
    IN (form.type = "Custom" /\ op.op = "SubmitJSON" /\ op.data.k # "nil") =>
         \A p \in DOMAIN op.calls :
           (op.calls[p].fn = "Form.Submit" /\ ~op.calls[p].closed) =>
             LET before == SubSeq(op.calls, 1, p - 1)
                 subs == SelectSeq(before, LAMBDA c : c.fn = "submit")
             IN /\ Len(subs) = Len(form.Elements)
                /\ Len(ItemsOf(op.data)) = Len(form.Elements)
                /\ \A j \in DOMAIN subs :
                     /\ subs[j].i = j
                     /\ subs[j].value = DecodeValue(ItemsOf(op.data)[j])
                     /\ subs[j].ret = ErrNil
                /\ \A q \in DOMAIN op.calls : q > p => op.calls[q].fn # "submit"

\* A form of two elements with callbacks, submitted: submit, callback, submit,
\* callback, and the form's Submit last.
C2_Witness ==
  /\ forms[1].type = "Custom"
  /\ Len(forms[1].Elements) = 2
  /\ last[1].op = "SubmitJSON"
  /\ Len(last[1].calls) = 5
  /\ last[1].calls[5].fn = "Form.Submit"
  /\ ~last[1].calls[5].closed

\* C3: SubmitJSON with data == nil on a Custom, Menu or Modal form runs no element's
\* submit and no button's Submit, calls the form's Submit exactly once with
\* closed = true if it is set, and returns nil, whatever the form holds and
\* whatever was done to it before.
C3_CloseCallsOnlyFormSubmit ==
  \A i \in DOMAIN forms :
    (last[i].op = "SubmitJSON" /\ last[i].data.k = "nil") =>
      /\ last[i].err = ErrNil
      /\ last[i].calls = Once(forms[i].Submit # Nil, FormSubmit(TRUE))

\* A Modal whose buttons and Submit are set, marshalled and then closed.
C3_Witness ==
  /\ forms[1].type = "Modal"
  /\ forms[1].Button1.Submit # Nil
  /\ forms[1].Button2.Submit # Nil
  /\ marshalled[1]
  /\ last[1].op = "SubmitJSON"
  /\ last[1].data.k = "nil"
  /\ last[1].calls = <<FormSubmit(TRUE)>>

\* The response value is of the wrong type, or out of range, for the element.
WrongFor(element, v) ==
  CASE element.kind = "Input" -> v.k # "string"
    [] element.kind = "Toggle" -> v.k # "bool"
    [] element.kind = "Slider" ->
         v.k # "number" \/ NumLess(v.lit, element.Min) \/ NumLess(element.Max, v.lit)
    [] element.kind \in {"Dropdown", "StepSlider"} ->
         \/ v.k # "number"
         \/ v.lit.h % 2 # 0
         \/ v.lit.big # 0
         \/ v.lit.h < 0
         \/ v.lit.h \div 2 >= Len(element.Options)
    [] OTHER -> FALSE

\* C4: every element's submit returns an error if the response value's type or
\* range is wrong for it, whether or not its Submit callback is set, and so
\* Custom.SubmitJSON returns an error.
C4_WrongValueIsAnError ==
  LET form == forms[1]
      op == last[1]
  IN (form.type = "Custom" /\ op.op = "SubmitJSON" /\ op.data.k = "array"
        /\ Len(form.Elements) = 1 /\ Len(op.data.items) = 1
        /\ WrongFor(form.Elements[1], op.data.items[1])) =>
       /\ op.err = ErrError
       /\ op.calls = <<SubmitCall(1, DecodeValue(op.data.items[1]), ErrError)>>

\* C5: an element's Submit callback only receives a validated value (a Slider's
\* within [Min, Max], a Dropdown's or StepSlider's index within Options together
\* with the option at that index), and no response value makes submit index
\* Options out of bounds.
C5_OnlyValidatedValues ==
  LET form == forms[1]
      op == last[1]
  IN (form.type = "Custom" /\ op.op = "SubmitJSON") =>
       /\ op.err # ErrPanic
       /\ \A p \in DOMAIN op.calls :
            op.calls[p].fn = "Element.Submit" =>
              LET element == form.Elements[op.calls[p].i]
                  args == op.calls[p].args
              IN /\ element.kind = "Slider" =>
                      ~NumLess(args.value, element.Min) /\ ~NumLess(element.Max, args.value)
                 /\ element.kind \in {"Dropdown", "StepSlider"} =>
                      /\ InBounds(element.Options, args.index)
                      /\ args.option = element.Options[args.index.v + 1]

\* What remains of C4 and C5 on the code: with a 64-bit int, an element whose Submit
\* is set returns an error for every wrong value, and no callback receives an
\* unvalidated value.
ValidationWhereSubmitIsSet ==
  LET form == forms[1]
      op == last[1]
  IN (intSize = 64 /\ form.type = "Custom" /\ Len(form.Elements) = 1) =>
       /\ C5_OnlyValidatedValues
       /\ (form.Elements[1].kind # "Label" /\ form.Elements[1].Submit # Nil) =>
            C4_WrongValueIsAnError

\* The response is no button of a form with n buttons.  A JSON null leaves the
\* index at 0, so it is decoded as the index 0.
NoButton(data, n) ==
  /\ ~(IsIndex(data) /\ IndexOf(data) < n)
  /\ ~(data.k = "null" /\ n > 0)

SameFormsSameData ==
  /\ DOMAIN forms = {1, 2}
  /\ last[1].op = "SubmitJSON"
  /\ last[2].op = "SubmitJSON"
  /\ last[1].data = last[2].data
  /\ forms[1].Elements = forms[2].Elements
  /\ forms[1].Submit = forms[2].Submit

SameResult == last[1].err = last[2].err /\ last[1].calls = last[2].calls

\* C7, as claimed: two Menu forms with equal Elements and Submit give the same
\* result on the same response data, whatever Element and MarshalJSON calls were
\* made on each before.
C7_NoPersistentState == SameFormsSameData => SameResult

\* C7, amended: they give the same result if MarshalJSON was called on each form
\* after its last Element call; a Menu keeps the button list that its last
\* MarshalJSON collected.
C7_SameResultOnceMarshalled ==
  (SameFormsSameData /\ marshalled[1] /\ marshalled[2]) => SameResult

\* Two marshalled forms of a label and a button, both answered with the index 0.
C7_Witness ==
  /\ SameFormsSameData
  /\ marshalled[1]
  /\ marshalled[2]
  /\ forms[1].Elements = <<Label, Button("b1")>>
  /\ IsIndex(last[1].data)
  /\ last[1].calls = <<ButtonSubmit("b1"), FormSubmit(FALSE)>>
====
